---- MODULE Spec2Model ----
(***************************************************************************)
(* Translate & Speak app (praveen034u/Capstone).                           *)
(*                                                                         *)
(* Three parts of the program are modelled, each with its own              *)
(* specification over the shared variables:                                *)
(*   SpecSTT     - audio sniffers and transcribe_with_google_stt           *)
(*                 (audio_utils.py, services.py)                           *)
(*   SpecExtract - extract_text_from_file (services.py)                    *)
(*   Spec        - the page script of streamlit_app.py: one action per     *)
(*                 script run (Streamlit reruns the script on every        *)
(*                 widget interaction), with the session cache             *)
(*                                                                         *)
(* translate_tts_app.py is the single-file variant of the same program: its *)
(* sniffers, transcribe, extract and page script have the same control     *)
(* flow, so the definitions below stand for both.                          *)
(*                                                                         *)
(* Conventions.  A Python str is a sequence of one-character strings, a    *)
(* Python bytes value is a sequence of integers 0..255.  An Optional[x]    *)
(* value is None == <<>> or Some(x) == <<x>>.                              *)
(***************************************************************************)
EXTENDS Integers, Sequences, FiniteSets, TLC

VARIABLES
    \* ---- transcribe_with_google_stt (one call in progress) ----
    stt_pc,          \* "idle" | "loop" | "done" | "raised"
    audio_bytes,     \* argument audio_bytes
    sample_rate_hz,  \* argument sample_rate_hz : Optional[int]
    wav_parsed,      \* what the wave module reads as frame rate in this buffer
    attempts,        \* local list `attempts`
    stt_idx,         \* position of `for cfg in attempts`
    stt_calls,       \* log of the speech_client.recognize calls made so far
    stt_out,         \* value returned : Optional[str]
    \* ---- _recognize (one call of the inner function) ----
    rec_pc,          \* "idle" | "done" | "raised"
    rec_reply,       \* what speech_client.recognize did
    rec_out,         \* value returned : Optional[str]
    \* ---- extract_text_from_file (last call) ----
    ex_pc,           \* "idle" | "done" | "raised"
    ex_file,         \* the uploaded file given
    ex_ext,          \* local `ext`
    ex_read,         \* whether a reader touched the file's content
    ex_pages,        \* local list `pages` of the pdf branch
    ex_out,          \* value returned : Optional[str]
    \* ---- page script / session ----
    gemini_api_key,  \* GEMINI_API_KEY after strip
    speech_ok,       \* whether init_clients returns a speech client
    translated_text, \* st.session_state.translated_text
    input_text_cache,\* st.session_state.input_text_cache
    run              \* what the last script run did

vars == <<stt_pc, audio_bytes, sample_rate_hz, wav_parsed, attempts, stt_idx, stt_calls, stt_out,
          ex_pc, ex_file, ex_ext, ex_read, ex_pages, ex_out,
          gemini_api_key, speech_ok, translated_text, input_text_cache, run,
          rec_pc, rec_reply, rec_out>>

stt_vars == <<stt_pc, audio_bytes, sample_rate_hz, wav_parsed, attempts, stt_idx, stt_calls, stt_out>>
ex_vars == <<ex_pc, ex_file, ex_ext, ex_read, ex_pages, ex_out>>
ses_vars == <<gemini_api_key, speech_ok, translated_text, input_text_cache, run>>
rec_vars == <<rec_pc, rec_reply, rec_out>>

-----------------------------------------------------------------------------
(* Python values *)

None == << >>
Some(x) == <<x>>

\* Python truthiness of an Optional[int] / Optional[str]: None, 0 and "" are falsy.
TruthyInt(o) == o # None /\ o[1] # 0
TruthyStr(o) == o # None /\ o[1] # << >>

\* `a or b`
OrInt(a, b) == IF TruthyInt(a) THEN a ELSE b
OrStr(a, b) == IF TruthyStr(a) THEN a ELSE b

Min(a, b) == IF a < b THEN a ELSE b

\* bytes_[lo:hi] : a Python slice never raises, it is cut at the end of the buffer
PySlice(s, lo, hi) == SubSeq(s, lo + 1, Min(hi, Len(s)))

IsSpace(c) == c \in {" ", "\n", "\t"}

RECURSIVE LStrip(_)
LStrip(s) == IF s # << >> /\ IsSpace(Head(s)) THEN LStrip(Tail(s)) ELSE s

RECURSIVE RStrip(_)
RStrip(s) == IF s # << >> /\ IsSpace(s[Len(s)]) THEN RStrip(SubSeq(s, 1, Len(s) - 1)) ELSE s

\* str.strip()
Strip(s) == RStrip(LStrip(s))

\* sep.join(list)
RECURSIVE Join(_, _)
Join(sep, list) ==
    IF list = << >> THEN << >>
    ELSE IF Len(list) = 1 THEN list[1]
    ELSE list[1] \o sep \o Join(sep, Tail(list))

\* all sequences over S of length 0..n
RECURSIVE SeqsUpTo(_, _)
SeqsUpTo(S, n) ==
    IF n = 0 THEN {<< >>}
    ELSE LET shorter == SeqsUpTo(S, n - 1)
         IN  shorter \cup {Append(s, x) : s \in shorter, x \in S}

-----------------------------------------------------------------------------
(* audio_utils.py : sniffers *)

RIFF == <<82, 73, 70, 70>>
WAVE == <<87, 65, 86, 69>>
OGGS == <<79, 103, 103, 83>>
EBML == <<26, 69, 223, 163>>

is_wav(bytes_) ==
    Len(bytes_) >= 12 /\ PySlice(bytes_, 0, 4) = RIFF /\ PySlice(bytes_, 8, 12) = WAVE

\* a sniffer that tests the magic against the bytes that are there
is_ogg_prefix(bytes_) == PySlice(bytes_, 0, 4) = PySlice(OGGS, 0, Len(bytes_))

is_ogg(bytes_) == Len(bytes_) >= 4 /\ PySlice(bytes_, 0, 4) = OGGS

is_webm(bytes_) == Len(bytes_) >= 4 /\ PySlice(bytes_, 0, 4) = EBML

\* wave.open(...).getframerate(), with every exception turned into None.  The
\* header fields past the 12 sniffed bytes are not part of the modelled buffer:
\* `parsed` is what the wave module makes of them (None when it raises).  A
\* buffer that does not start with RIFF....WAVE always makes wave.open raise.
wav_samplerate_from_bytes(wav_bytes, parsed) ==
    IF Len(wav_bytes) >= 12 /\ PySlice(wav_bytes, 0, 4) = RIFF
                            /\ PySlice(wav_bytes, 8, 12) = WAVE
    THEN parsed ELSE None

-----------------------------------------------------------------------------
(* services.py : transcribe_with_google_stt *)

LINEAR16 == "LINEAR16"
OGG_OPUS == "OGG_OPUS"
WEBM_OPUS == "WEBM_OPUS"
ENCODING_UNSPECIFIED == "ENCODING_UNSPECIFIED"

\* _config: sample_rate_hertz is set only for a truthy sr
_config(encoding, sr) ==
    [encoding |-> encoding,
     sample_rate_hertz |-> IF TruthyInt(sr) THEN sr ELSE None]

\* the texts.append loop of _recognize: first alternative of each result that has one
RECURSIVE FirstAlternatives(_)
FirstAlternatives(results) ==
    IF results = << >> THEN << >>
    ELSE (IF Head(results) # << >> THEN <<Head(results)[1]>> ELSE << >>)
         \o FirstAlternatives(Tail(results))

\* an except clause that lets the provider's exception through
_recognize_uncaught(reply) ==
    IF reply.exc THEN [raised |-> TRUE, value |-> None]
    ELSE LET text == Strip(Join(<<" ">>, FirstAlternatives(reply.results)))
         IN  [raised |-> FALSE, value |-> IF text # << >> THEN Some(text) ELSE None]

\* a _recognize that returns the joined text as it is
_recognize_unstripped(reply) ==
    IF reply.exc THEN [raised |-> FALSE, value |-> None]
    ELSE LET text == Join(<<" ">>, FirstAlternatives(reply.results))
         IN  [raised |-> FALSE, value |-> IF text # << >> THEN Some(text) ELSE None]

\* _recognize: reply is what speech_client.recognize does for this cfg, an
\* exception (exc) or a response with its results; `text or None`
_recognize(reply) ==
    IF reply.exc THEN [raised |-> FALSE, value |-> None]
    ELSE LET text == Strip(Join(<<" ">>, FirstAlternatives(reply.results)))
         IN  [raised |-> FALSE, value |-> IF text # << >> THEN Some(text) ELSE None]

\* attempt list built with the container attempts after the fallback
BuildAttemptsFallbackFirst(bytes_, rate, parsed) ==
    <<_config(ENCODING_UNSPECIFIED, rate)>>
    \o (IF is_wav(bytes_)
        THEN <<_config(LINEAR16, OrInt(rate, wav_samplerate_from_bytes(bytes_, parsed)))>>
        ELSE << >>)
    \o (IF is_ogg(bytes_) THEN <<_config(OGG_OPUS, rate)>> ELSE << >>)
    \o (IF is_webm(bytes_) THEN <<_config(WEBM_OPUS, rate)>> ELSE << >>)

\* attempt list whose OGG_OPUS attempt is not guarded by the sniffer
BuildAttemptsAlwaysOgg(bytes_, rate, parsed) ==
    (IF is_wav(bytes_)
     THEN <<_config(LINEAR16, OrInt(rate, wav_samplerate_from_bytes(bytes_, parsed)))>>
     ELSE << >>)
    \o <<_config(OGG_OPUS, rate)>>
    \o (IF is_webm(bytes_) THEN <<_config(WEBM_OPUS, rate)>> ELSE << >>)
    \o <<_config(ENCODING_UNSPECIFIED, rate)>>

\* attempt list in which every attempt carries the declared-or-sniffed rate
BuildAttemptsSniffedEverywhere(bytes_, rate, parsed) ==
    LET sr == OrInt(rate, wav_samplerate_from_bytes(bytes_, parsed)) IN
    (IF is_wav(bytes_) THEN <<_config(LINEAR16, sr)>> ELSE << >>)
    \o (IF is_ogg(bytes_) THEN <<_config(OGG_OPUS, sr)>> ELSE << >>)
    \o (IF is_webm(bytes_) THEN <<_config(WEBM_OPUS, sr)>> ELSE << >>)
    \o <<_config(ENCODING_UNSPECIFIED, sr)>>

\* attempt list whose WebM attempt is not guarded by the sniffer
BuildAttemptsAlwaysWebm(bytes_, rate, parsed) ==
    (IF is_wav(bytes_)
     THEN <<_config(LINEAR16, OrInt(rate, wav_samplerate_from_bytes(bytes_, parsed)))>>
     ELSE << >>)
    \o (IF is_ogg(bytes_) THEN <<_config(OGG_OPUS, rate)>> ELSE << >>)
    \o <<_config(WEBM_OPUS, rate)>>
    \o <<_config(ENCODING_UNSPECIFIED, rate)>>

\* "# Build attempts"
BuildAttempts(bytes_, rate, parsed) ==
    (IF is_wav(bytes_)
     THEN <<_config(LINEAR16, OrInt(rate, wav_samplerate_from_bytes(bytes_, parsed)))>>
     ELSE << >>)
    \o (IF is_ogg(bytes_) THEN <<_config(OGG_OPUS, rate)>> ELSE << >>)
    \o (IF is_webm(bytes_) THEN <<_config(WEBM_OPUS, rate)>> ELSE << >>)
    \o <<_config(ENCODING_UNSPECIFIED, rate)>>

(* inputs *)

MaxBufLen == 12
MaxSegments == 2
MaxAlternatives == 1

\* full headers: a 4-byte head, 4 size bytes, a 4-byte form type, then data
BufferHeads == {RIFF, OGGS, EBML, <<82, 73, 70, 88>>}
BufferForms == {WAVE, <<87, 65, 86, 88>>}
FullBuffers == {h \o <<36, 0, 0, 0>> \o f \o <<102, 109, 116, 32, 16, 0>> :
                    h \in BufferHeads, f \in BufferForms}
AudioBuffers == {SubSeq(b, 1, n) : b \in FullBuffers, n \in 0..MaxBufLen}

DeclaredRates == {None, Some(0), Some(16000)}
ParsedRates == {None, Some(8000)}

Transcripts == {<< >>, <<"h", "i">>, <<" ", "y", " ">>}
Alternatives == SeqsUpTo(Transcripts, MaxAlternatives)
Results == SeqsUpTo(Alternatives, MaxSegments)
Replies == {[exc |-> TRUE, results |-> << >>]}
           \cup {[exc |-> FALSE, results |-> r] : r \in Results}

(* the call, one recognize at a time *)

TranscribeCall ==
    /\ stt_pc = "idle"
    /\ \E b \in AudioBuffers, rate \in DeclaredRates, parsed \in ParsedRates :
        /\ audio_bytes' = b
        /\ sample_rate_hz' = rate
        /\ wav_parsed' = parsed
        /\ attempts' = BuildAttempts(b, rate, parsed)
    /\ stt_idx' = 1
    /\ stt_calls' = << >>
    /\ stt_out' = None
    /\ stt_pc' = "loop"
    /\ UNCHANGED <<ex_vars, ses_vars, rec_vars>>

\* loop body that goes on to the next attempt whatever the text was
RecognizeStepNoEarlyExit ==
    /\ stt_pc = "loop"
    /\ stt_idx <= Len(attempts)
    /\ \E reply \in Replies :
        LET out == _recognize(reply) IN
        /\ stt_calls' = Append(stt_calls,
               [cfg |-> attempts[stt_idx], exc |-> reply.exc, out |-> out.value])
        /\ stt_out' = IF TruthyStr(out.value) THEN out.value ELSE stt_out
        /\ stt_idx' = stt_idx + 1
        /\ stt_pc' = IF stt_idx = Len(attempts) THEN "done" ELSE "loop"
    /\ UNCHANGED <<audio_bytes, sample_rate_hz, wav_parsed, attempts, ex_vars, ses_vars, rec_vars>>

\* one iteration of `for cfg in attempts`: out = _recognize(cfg); if out: return
\* out; after the last attempt, return None
RecognizeStep ==
    /\ stt_pc = "loop"
    /\ stt_idx <= Len(attempts)
    /\ \E reply \in Replies :
        LET out == _recognize(reply) IN
        /\ stt_calls' = Append(stt_calls,
               [cfg |-> attempts[stt_idx], exc |-> reply.exc, out |-> out.value])
        /\ IF out.raised
           THEN /\ stt_pc' = "raised"
                /\ UNCHANGED <<stt_out, stt_idx>>
           ELSE IF TruthyStr(out.value)
           THEN /\ stt_out' = out.value
                /\ stt_pc' = "done"
                /\ UNCHANGED stt_idx
           ELSE /\ stt_idx' = stt_idx + 1
                /\ stt_out' = None
                /\ stt_pc' = IF stt_idx = Len(attempts) THEN "done" ELSE "loop"
    /\ UNCHANGED <<audio_bytes, sample_rate_hz, wav_parsed, attempts, ex_vars, ses_vars, rec_vars>>

\* the caller takes the result; the next call starts from fresh locals
TranscribeReturn ==
    /\ stt_pc \in {"done", "raised"}
    /\ stt_pc' = "idle"
    /\ audio_bytes' = << >>
    /\ sample_rate_hz' = None
    /\ wav_parsed' = None
    /\ attempts' = << >>
    /\ stt_idx' = 0
    /\ stt_calls' = << >>
    /\ stt_out' = None
    /\ UNCHANGED <<ex_vars, ses_vars, rec_vars>>

NextSTT == TranscribeCall \/ RecognizeStep \/ TranscribeReturn

(* _recognize called on its own, with longer responses *)

MaxRecSegments == 2
MaxRecAlternatives == 2

RecReplies == {[exc |-> TRUE, results |-> << >>]}
              \cup {[exc |-> FALSE, results |-> r] :
                        r \in SeqsUpTo(SeqsUpTo(Transcripts, MaxRecAlternatives), MaxRecSegments)}
NoReply == [exc |-> FALSE, results |-> << >>]

RecognizeCall ==
    /\ rec_pc = "idle"
    /\ stt_pc = "idle"
    /\ \E reply \in RecReplies :
        LET out == _recognize(reply) IN
        /\ rec_reply' = reply
        /\ rec_out' = out.value
        /\ rec_pc' = IF out.raised THEN "raised" ELSE "done"
    /\ UNCHANGED <<stt_vars, ex_vars, ses_vars>>

RecognizeReturn ==
    /\ rec_pc \in {"done", "raised"}
    /\ rec_pc' = "idle"
    /\ rec_reply' = NoReply
    /\ rec_out' = None
    /\ UNCHANGED <<stt_vars, ex_vars, ses_vars>>

\* _recognize on its own, or a whole transcribe call
NextRecognize == RecognizeCall \/ RecognizeReturn \/ (rec_pc = "idle" /\ NextSTT)

-----------------------------------------------------------------------------
(* services.py : extract_text_from_file *)

UpperCase == <<"A", "B", "C", "D", "E", "F", "G", "H", "I", "J", "K", "L", "M",
               "N", "O", "P", "Q", "R", "S", "T", "U", "V", "W", "X", "Y", "Z">>
LowerCase == <<"a", "b", "c", "d", "e", "f", "g", "h", "i", "j", "k", "l", "m",
               "n", "o", "p", "q", "r", "s", "t", "u", "v", "w", "x", "y", "z">>

LowerChar(c) ==
    IF \E i \in 1..Len(UpperCase) : UpperCase[i] = c
    THEN LowerCase[CHOOSE i \in 1..Len(UpperCase) : UpperCase[i] = c]
    ELSE c

\* str.lower()
Lower(s) == [i \in 1..Len(s) |-> LowerChar(s[i])]

\* s.split(".")[-1] : what follows the last ".", the whole of s when it has none
RECURSIVE LastDotPart(_)
LastDotPart(s) ==
    IF s = << >> THEN << >>
    ELSE IF s[Len(s)] = "." THEN << >>
    ELSE Append(LastDotPart(SubSeq(s, 1, Len(s) - 1)), s[Len(s)])

\* the extension taken as it is written
file_ext_as_written(name) == LastDotPart(name)

\* ext = file.name.split(".")[-1].lower()
file_ext(name) == Lower(LastDotPart(name))

EXT_TXT == <<"t", "x", "t">>
EXT_PDF == <<"p", "d", "f">>
EXT_CSV == <<"c", "s", "v">>
EXT_XLSX == <<"x", "l", "s", "x">>

(* bytes.decode("utf-8", errors=...) *)

\* continuation bytes a lead byte asks for, -1 for a byte that cannot lead
Utf8Need(b) ==
    IF b < 128 THEN 0
    ELSE IF b \in 194..223 THEN 1
    ELSE IF b \in 224..239 THEN 2
    ELSE IF b \in 240..244 THEN 3
    ELSE 0 - 1

\* whether c may be the j-th continuation byte after lead
Utf8ContOk(lead, j, c) ==
    IF j > 1 THEN c \in 128..191
    ELSE IF lead = 224 THEN c \in 160..191
    ELSE IF lead = 237 THEN c \in 128..159
    ELSE IF lead = 240 THEN c \in 144..191
    ELSE IF lead = 244 THEN c \in 128..143
    ELSE c \in 128..191

\* how many of the continuation bytes wanted at position i are there and valid
RECURSIVE Utf8Good(_, _, _, _)
Utf8Good(data, i, j, need) ==
    IF j > need \/ i + j > Len(data) THEN j - 1
    ELSE IF Utf8ContOk(data[i], j, data[i + j]) THEN Utf8Good(data, i, j + 1, need)
    ELSE j - 1

Utf8CodePoint(data, i, need) ==
    IF need = 0 THEN data[i]
    ELSE IF need = 1 THEN (data[i] - 192) * 64 + (data[i + 1] - 128)
    ELSE IF need = 2
         THEN (data[i] - 224) * 4096 + (data[i + 1] - 128) * 64 + (data[i + 2] - 128)
    ELSE (data[i] - 240) * 262144 + (data[i + 1] - 128) * 4096
         + (data[i + 2] - 128) * 64 + (data[i + 3] - 128)

\* the code points decoded from position i on; an undecodable run of bytes (a byte
\* that cannot lead, or a lead with the valid part of its sequence) is dropped
\* under "ignore", gives one U+FFFD under "replace" and marks the error (-1)
\* under "strict"
RECURSIVE Utf8DecodeFrom(_, _, _)
Utf8DecodeFrom(data, i, errors) ==
    IF i > Len(data) THEN << >>
    ELSE LET need == Utf8Need(data[i])
             good == IF need < 0 THEN 0 ELSE Utf8Good(data, i, 1, need)
             onerror == IF errors = "ignore" THEN << >>
                        ELSE IF errors = "replace" THEN <<65533>>
                        ELSE <<0 - 1>>
         IN  IF need >= 0 /\ good = need
             THEN <<Utf8CodePoint(data, i, need)>> \o Utf8DecodeFrom(data, i + need + 1, errors)
             ELSE onerror \o Utf8DecodeFrom(data, i + good + 1, errors)

\* a character of a str, named by its code point
Chr(cp) ==
    IF cp = 65 THEN "A"
    ELSE IF cp = 233 THEN "U+00E9"
    ELSE IF cp = 65533 THEN "U+FFFD"
    ELSE ToString(cp)

Utf8Decode(data, errors) ==
    LET cps == Utf8DecodeFrom(data, 1, errors)
    IN  IF \E k \in 1..Len(cps) : cps[k] < 0
        THEN [raised |-> TRUE, text |-> << >>]
        ELSE [raised |-> FALSE, text |-> [k \in 1..Len(cps) |-> Chr(cps[k])]]

TxtErrorsReplace == "replace"

\* the errors= argument of the txt branch
TxtErrors == "ignore"

(* the pdf branch *)

\* a page loop without the inner try: a page that throws ends the loop
pdf_pages_uncaught(reader_pages) ==
    [raised |-> \E k \in 1..Len(reader_pages) : reader_pages[k].throws,
     pages |-> << >>]

RECURSIVE CollectPages(_)
CollectPages(reader_pages) ==
    IF reader_pages = << >> THEN << >>
    ELSE (IF ~Head(reader_pages).throws /\ Head(reader_pages).text # << >>
          THEN <<Head(reader_pages).text>> ELSE << >>)
         \o CollectPages(Tail(reader_pages))

\* for page in reader.pages: try: t = page.extract_text(); if t: pages.append(t)
\*                           except Exception: continue
pdf_pages(reader_pages) == [raised |-> FALSE, pages |-> CollectPages(reader_pages)]

\* What the reader chosen by the extension finds in the file:
\*   fails  - file.read(), PdfReader(file), pd.read_csv / pd.read_excel raises
\*   data   - the bytes file.read() returns (txt)
\*   pages  - reader.pages, each page's extract_text() outcome (pdf)
\*   table  - df.to_string(index=False) (csv, xlsx)
\* Result: raised (an exception leaves the function), value, read (a reader was
\* given the file), pages (the local list of the pdf branch), ext.
extract_text_from_file(file) ==
    LET ext == file_ext(file.name)
        c == file.content
        none == [raised |-> FALSE, value |-> None, read |-> TRUE, pages |-> << >>, ext |-> ext]
    IN  IF ext = EXT_TXT
        THEN IF c.fails THEN none
             ELSE LET d == Utf8Decode(c.data, TxtErrors)
                  IN  IF d.raised THEN none ELSE [none EXCEPT !.value = Some(d.text)]
        ELSE IF ext = EXT_PDF
        THEN IF c.fails THEN none
             ELSE LET p == pdf_pages(c.pages)
                  IN  IF p.raised THEN none
                      ELSE [none EXCEPT !.pages = p.pages,
                                        !.value = IF p.pages # << >>
                                                  THEN Some(Join(<<"\n">>, p.pages))
                                                  ELSE None]
        ELSE IF ext = EXT_CSV \/ ext = EXT_XLSX
        THEN IF c.fails THEN none ELSE [none EXCEPT !.value = Some(c.table)]
        ELSE [none EXCEPT !.read = FALSE]

(* inputs *)

MaxTxtLen == 3
MaxPages == 3

NameStems == {<< >>, <<"a">>, <<"a", ".", "p", "d", "f">>}
NameEnds == {EXT_TXT, <<"T", "X", "T">>, <<"P", "d", "f">>, EXT_CSV, EXT_XLSX,
             <<"d", "o", "c", "x">>, << >>}
FileNames == {s \o <<".">> \o e : s \in NameStems, e \in NameEnds} \cup NameEnds

\* 'A', the two bytes of U+00E9, and 0xFF, which no UTF-8 text holds
TxtBytes == {65, 195, 169, 255}
PageTexts == {<< >>, <<"p">>, <<"q", "\n">>}
ReaderPage == {[throws |-> TRUE, text |-> << >>]}
              \cup {[throws |-> FALSE, text |-> t] : t \in PageTexts}
Tables == {<< >>, <<"c", "\n", "1">>}

NoContent == [fails |-> FALSE, data |-> << >>, pages |-> << >>, table |-> << >>]
Broken == [NoContent EXCEPT !.fails = TRUE]

ContentsFor(ext) ==
    IF ext = EXT_TXT
    THEN {Broken} \cup {[NoContent EXCEPT !.data = d] : d \in SeqsUpTo(TxtBytes, MaxTxtLen)}
    ELSE IF ext = EXT_PDF
    THEN {Broken} \cup {[NoContent EXCEPT !.pages = p] : p \in SeqsUpTo(ReaderPage, MaxPages)}
    ELSE {Broken} \cup {[NoContent EXCEPT !.table = t] : t \in Tables}

Files == UNION {{[name |-> n, content |-> c] : c \in ContentsFor(Lower(LastDotPart(n)))} :
                    n \in FileNames}

ExtractCall ==
    /\ ex_pc = "idle"
    /\ \E file \in Files :
        LET r == extract_text_from_file(file) IN
        /\ ex_file' = file
        /\ ex_ext' = r.ext
        /\ ex_read' = r.read
        /\ ex_pages' = r.pages
        /\ ex_out' = r.value
        /\ ex_pc' = IF r.raised THEN "raised" ELSE "done"
    /\ UNCHANGED <<stt_vars, ses_vars, rec_vars>>

ExtractReturn ==
    /\ ex_pc \in {"done", "raised"}
    /\ ex_pc' = "idle"
    /\ ex_file' = << >>
    /\ ex_ext' = << >>
    /\ ex_read' = FALSE
    /\ ex_pages' = << >>
    /\ ex_out' = None
    /\ UNCHANGED <<stt_vars, ses_vars, rec_vars>>

NextExtract == ExtractCall \/ ExtractReturn

-----------------------------------------------------------------------------
(* streamlit_app.py : the page script, run once per interaction *)

\* translate_with_gemini: reply is what model.generate_content does, an exception
\* (exc), a falsy response (falsy) or a response whose .text is text
translate_with_gemini(reply) ==
    IF reply.exc THEN None
    ELSE IF reply.falsy THEN None
    ELSE Some(Strip(OrStr(reply.text, Some(<< >>))[1]))

\* text_to_speech: the MP3 buffer (here: whether there is one), None on any error
text_to_speech(reply) == IF reply.exc THEN None ELSE Some(<<"m", "p", "3">>)

\* secrets check that stops only for the missing Gemini key
StartupStopsKeyOnly == gemini_api_key = << >>

\* "Secrets / Config": st.stop() when the key is empty or init_clients raises
StartupStops == gemini_api_key = << >> \/ ~speech_ok

\* synthesis text taken from the input cache first
tts_text_input_first(translated, cached) ==
    Strip(OrStr(Some(cached), OrStr(Some(translated), Some(<< >>)))[1])

\* (st.session_state.translated_text or st.session_state.input_text_cache or "").strip()
tts_text_of(translated, cached) ==
    Strip(OrStr(Some(translated), OrStr(Some(cached), Some(<< >>)))[1])

(* inputs *)

ApiKeys == {<< >>, <<"k">>}
TypedTexts == {<< >>, <<" ">>, <<"i", "n">>, <<" ", "i", " ">>}
TranslateReplies ==
    {[exc |-> TRUE, falsy |-> FALSE, text |-> None],
     [exc |-> FALSE, falsy |-> TRUE, text |-> None]}
    \cup {[exc |-> FALSE, falsy |-> FALSE, text |-> t] :
            t \in {None, Some(<< >>), Some(<<" ">>), Some(<<"t", "r">>),
                   Some(<<" ", "u", " ">>)}}
SpeechReplies == {[exc |-> TRUE], [exc |-> FALSE]}
\* the provider is not called
NoTranslateReply == [exc |-> TRUE, falsy |-> FALSE, text |-> None]
NoSpeechReply == [exc |-> TRUE]
Buttons == {"none", "translate", "tts"}

\* uploads the session tries: one name per reader, short contents
SessionNames == {<<"a", ".", "t", "x", "t">>, <<"a", ".", "P", "d", "f">>,
                 <<".", "c", "s", "v">>}
SessionFiles == {f \in Files : /\ f.name \in SessionNames
                               /\ Len(f.content.data) <= 2
                               /\ Len(f.content.pages) <= 1}
\* what one transcribe call can hand back: a _recognize value of some reply
SessionTranscripts == {_recognize(r).value : r \in {q \in Replies : Len(q.results) <= 1}}

NoRun == [mode |-> "none", halted |-> FALSE, button |-> "none", input_text |-> None,
          source |-> << >>, translate_called |-> FALSE, translated |-> None,
          tts_called |-> FALSE, tts_text |-> << >>, audio |-> None]

\* a persist step that stores whatever the run's input text is
persisted_input_always(input_text, old) == OrStr(input_text, Some(<< >>))[1]

\* "Persist input for TTS later": if input_text: input_text_cache = input_text
persisted_input(input_text, old) == IF TruthyStr(input_text) THEN input_text[1] ELSE old

\* a translate handler that stores the adapter's answer even when there is none
stored_translation_always(translated, old) == OrStr(translated, Some(<< >>))[1]

\* "Translate": if translated: translated_text = translated
stored_translation(translated, old) == IF TruthyStr(translated) THEN translated[1] ELSE old

\* The script from "Persist input for TTS later" to the end, for the input_text
\* the input section produced (None when extract_text_from_file returned None).
ScriptBody(mode, input_text) ==
    \E button \in Buttons :
    \E treply \in IF button = "translate" THEN TranslateReplies ELSE {NoTranslateReply} :
    \E sreply \in IF button = "tts" THEN SpeechReplies ELSE {NoSpeechReply} :
        LET cached == persisted_input(input_text, input_text_cache)
            source == Strip(OrStr(input_text, Some(<< >>))[1])
            translate_called == button = "translate" /\ source # << >>
            translated == IF translate_called THEN translate_with_gemini(treply) ELSE None
            newT == stored_translation(translated, translated_text)
            tts_text == IF button = "tts" THEN tts_text_of(newT, cached) ELSE << >>
            tts_called == button = "tts" /\ tts_text # << >>
        IN  /\ input_text_cache' = cached
            /\ translated_text' = newT
            /\ run' = [mode |-> mode, halted |-> FALSE, button |-> button,
                       input_text |-> input_text, source |-> source,
                       translate_called |-> translate_called, translated |-> translated,
                       tts_called |-> tts_called, tts_text |-> tts_text,
                       audio |-> IF tts_called THEN text_to_speech(sreply) ELSE None]

\* a run that ends at st.stop() in "Secrets / Config"
RunHalted ==
    /\ StartupStops
    /\ run' = [NoRun EXCEPT !.halted = TRUE]
    /\ UNCHANGED <<gemini_api_key, speech_ok, translated_text, input_text_cache>>
    /\ UNCHANGED <<stt_vars, ex_vars, rec_vars>>

\* input_mode == "Type Text": the text area holds the cached text or what was typed
RunTypeText ==
    /\ ~StartupStops
    /\ \E typed \in TypedTexts \cup {input_text_cache} : ScriptBody("Type Text", Some(typed))
    /\ UNCHANGED <<gemini_api_key, speech_ok, stt_vars, ex_vars, rec_vars>>

\* input_mode == "Upload File": no file, or extract_text_from_file(file)
RunUploadFile ==
    /\ ~StartupStops
    /\ \/ ScriptBody("Upload File", Some(<< >>))
       \/ \E file \in SessionFiles :
            ScriptBody("Upload File", extract_text_from_file(file).value)
    /\ UNCHANGED <<gemini_api_key, speech_ok, stt_vars, ex_vars, rec_vars>>

\* input_mode == "Use Microphone": a recording and / or an uploaded clip, each
\* transcribed; a truthy transcript becomes input_text, the clip's one last
RunMicrophone ==
    /\ ~StartupStops
    /\ \E mic \in SessionTranscripts, clip \in SessionTranscripts :
        ScriptBody("Use Microphone",
                   IF TruthyStr(clip) THEN clip
                   ELSE IF TruthyStr(mic) THEN mic ELSE Some(<< >>))
    /\ UNCHANGED <<gemini_api_key, speech_ok, stt_vars, ex_vars, rec_vars>>

Next == RunHalted \/ RunTypeText \/ RunUploadFile \/ RunMicrophone

-----------------------------------------------------------------------------
Init ==
    /\ stt_pc = "idle"
    /\ audio_bytes = << >>
    /\ sample_rate_hz = None
    /\ wav_parsed = None
    /\ attempts = << >>
    /\ stt_idx = 0
    /\ stt_calls = << >>
    /\ stt_out = None
    /\ ex_pc = "idle"
    /\ ex_file = << >>
    /\ ex_ext = << >>
    /\ ex_read = FALSE
    /\ ex_pages = << >>
    /\ ex_out = None
    /\ gemini_api_key \in ApiKeys
    /\ speech_ok \in BOOLEAN
    /\ translated_text = << >>
    /\ input_text_cache = << >>
    /\ run = NoRun
    /\ rec_pc = "idle"
    /\ rec_reply = NoReply
    /\ rec_out = None

Spec == Init /\ [][Next]_vars

\* the function-level specifications run with the clients configured
InitConfigured == Init /\ gemini_api_key # << >> /\ speech_ok

SpecSTT == InitConfigured /\ [][NextSTT]_vars

SpecExtract == InitConfigured /\ [][NextExtract]_vars

SpecRecognize == InitConfigured /\ [][NextRecognize]_vars

-----------------------------------------------------------------------------
(* Properties of transcribe_with_google_stt (checked under SpecSTT) *)

Encodings == [i \in 1..Len(attempts) |-> attempts[i].encoding]

Rank(encoding) ==
    IF encoding = LINEAR16 THEN 1
    ELSE IF encoding = OGG_OPUS THEN 2
    ELSE IF encoding = WEBM_OPUS THEN 3
    ELSE 4

\* C1: the attempt list is in the fixed priority order LINEAR16 (iff the buffer
\* sniffs as WAV), OGG_OPUS (iff OGG), WEBM_OPUS (iff WEBM), and always ends with
\* exactly one ENCODING_UNSPECIFIED attempt; a WAV buffer's first attempt is
\* LINEAR16 and an OGG buffer's first attempt is OGG_OPUS.
C1_AttemptOrder ==
    stt_pc # "idle" =>
        LET n == Len(attempts) IN
        /\ n >= 1
        /\ Encodings[n] = ENCODING_UNSPECIFIED
        /\ \A i \in 1..n : \A j \in 1..n : i < j => Rank(Encodings[i]) < Rank(Encodings[j])
        /\ (\E i \in 1..n : Encodings[i] = LINEAR16) <=> is_wav(audio_bytes)
        /\ (\E i \in 1..n : Encodings[i] = OGG_OPUS) <=> is_ogg(audio_bytes)
        /\ (\E i \in 1..n : Encodings[i] = WEBM_OPUS) <=> is_webm(audio_bytes)
        /\ is_wav(audio_bytes) => Encodings[1] = LINEAR16
        /\ is_ogg(audio_bytes) => Encodings[1] = OGG_OPUS

C1_Witness ==
    /\ stt_pc = "loop"
    /\ is_wav(audio_bytes)
    /\ Encodings = <<LINEAR16, ENCODING_UNSPECIFIED>>

\* C2 as claimed: a buffer that sniffs as neither WAV nor OGG gets the single
\* ENCODING_UNSPECIFIED attempt.
C2_NeitherWavNorOggSingleAttempt ==
    (stt_pc # "idle" /\ ~is_wav(audio_bytes) /\ ~is_ogg(audio_bytes))
        => Encodings = <<ENCODING_UNSPECIFIED>>

\* C2 amended: a buffer that sniffs as none of WAV, OGG and WEBM gets the single
\* ENCODING_UNSPECIFIED attempt (a WEBM buffer gets WEBM_OPUS first).
C2_UnknownSingleAttempt ==
    /\ (stt_pc # "idle" /\ ~is_wav(audio_bytes) /\ ~is_ogg(audio_bytes)
                        /\ ~is_webm(audio_bytes))
            => Encodings = <<ENCODING_UNSPECIFIED>>
    /\ (stt_pc # "idle" /\ is_webm(audio_bytes))
            => Encodings = <<WEBM_OPUS, ENCODING_UNSPECIFIED>>

C2_Witness ==
    /\ stt_pc = "done"
    /\ Len(audio_bytes) >= 12
    /\ ~is_wav(audio_bytes) /\ ~is_ogg(audio_bytes) /\ ~is_webm(audio_bytes)
    /\ Len(stt_calls) = 1
    /\ stt_calls[1].cfg.encoding = ENCODING_UNSPECIFIED

\* C3: the recognize calls are made one at a time in attempt-list order; every
\* call before the last one made gave no text (empty, or it failed); a call that
\* gives text ends the loop with that text as the result, so no later attempt is
\* invoked; the result is None only after every attempt was invoked without text.
C3_FirstNonEmptyWins ==
    LET n == Len(stt_calls) IN
    /\ n <= Len(attempts)
    /\ \A i \in 1..n : stt_calls[i].cfg = attempts[i]
    /\ \A i \in 1..n : i < n => ~TruthyStr(stt_calls[i].out)
    /\ stt_pc = "loop" => (stt_idx = n + 1 /\ \A i \in 1..n : ~TruthyStr(stt_calls[i].out))
    /\ stt_pc = "done" =>
        /\ n >= 1
        /\ IF TruthyStr(stt_calls[n].out)
           THEN stt_out = stt_calls[n].out
           ELSE stt_out = None /\ n = Len(attempts)

C3_Witness ==
    /\ stt_pc = "done"
    /\ Len(attempts) = 2
    /\ Len(stt_calls) = 2
    /\ ~stt_calls[1].exc /\ stt_calls[1].out = None
    /\ stt_out = Some(<<"h", "i">>)

C3_WitnessEarlyExit ==
    /\ stt_pc = "done"
    /\ Len(attempts) = 2
    /\ Len(stt_calls) = 1
    /\ stt_out = Some(<<"h", "i">>)

\* C4: a recognize call that raises counts as no result for its attempt and the
\* loop goes on with the next attempt; no exception leaves transcribe, and when
\* every call raised the result is None.
C4_FailuresSwallowed ==
    LET n == Len(stt_calls) IN
    /\ stt_pc # "raised"
    /\ \A i \in 1..n : stt_calls[i].exc => stt_calls[i].out = None
    /\ (n >= 1 /\ stt_calls[n].exc /\ n < Len(attempts)) => (stt_pc = "loop" /\ stt_idx = n + 1)
    /\ (n >= 1 /\ stt_calls[n].exc /\ n = Len(attempts)) => stt_pc = "done"
    /\ (stt_pc = "done" /\ \A i \in 1..n : stt_calls[i].exc)
            => (stt_out = None /\ n = Len(attempts))

C4_Witness ==
    /\ stt_pc = "done"
    /\ Len(stt_calls) = 2
    /\ stt_calls[1].exc /\ stt_calls[2].exc
    /\ stt_out = None

\* C6: for a buffer shorter than 4 bytes (the empty one included) the three
\* sniffers are all false and the attempt list is the single
\* ENCODING_UNSPECIFIED attempt.
C6_ShortBufferUnknown ==
    (stt_pc # "idle" /\ Len(audio_bytes) < 4) =>
        /\ ~is_wav(audio_bytes) /\ ~is_ogg(audio_bytes) /\ ~is_webm(audio_bytes)
        /\ Encodings = <<ENCODING_UNSPECIFIED>>
        /\ \A i \in 1..Len(stt_calls) : stt_calls[i].cfg.encoding = ENCODING_UNSPECIFIED

C6_Witness ==
    /\ stt_pc = "done"
    /\ audio_bytes = <<79, 103, 103>>
    /\ Len(stt_calls) = 1
    /\ stt_calls[1].cfg.encoding = ENCODING_UNSPECIFIED

C6_WitnessEmpty ==
    /\ stt_pc = "done"
    /\ audio_bytes = << >>
    /\ Len(stt_calls) = 1

\* a rate that is there: an Optional[int] that is neither None nor 0
RateOrNone(rate) == IF rate # None /\ rate[1] > 0 THEN rate ELSE None

\* C12: the LINEAR16 attempt carries the declared sample rate when there is one,
\* otherwise the rate the wave module reads in the header, otherwise none; the
\* OGG_OPUS, WEBM_OPUS and ENCODING_UNSPECIFIED attempts carry the declared rate
\* when there is one and otherwise none, never the rate read in the header.
C12_AttemptSampleRates ==
    stt_pc # "idle" =>
        \A i \in 1..Len(attempts) :
            IF attempts[i].encoding = LINEAR16
            THEN attempts[i].sample_rate_hertz =
                    (IF RateOrNone(sample_rate_hz) # None THEN sample_rate_hz
                     ELSE RateOrNone(wav_parsed))
            ELSE attempts[i].sample_rate_hertz = RateOrNone(sample_rate_hz)

\* a WAV buffer without declared rate: the header's rate on LINEAR16 only
C12_Witness ==
    /\ stt_pc = "loop"
    /\ sample_rate_hz = None
    /\ wav_parsed = Some(8000)
    /\ attempts = <<[encoding |-> LINEAR16, sample_rate_hertz |-> Some(8000)],
                    [encoding |-> ENCODING_UNSPECIFIED, sample_rate_hertz |-> None]>>

C12_WitnessDeclared ==
    /\ stt_pc = "loop"
    /\ sample_rate_hz = Some(16000)
    /\ wav_parsed = Some(8000)
    /\ attempts = <<[encoding |-> LINEAR16, sample_rate_hertz |-> Some(16000)],
                    [encoding |-> ENCODING_UNSPECIFIED, sample_rate_hertz |-> Some(16000)]>>

\* how many of the three sniffers accept the buffer
Sniffed(bytes_) ==
    (IF is_wav(bytes_) THEN 1 ELSE 0) + (IF is_ogg(bytes_) THEN 1 ELSE 0)
    + (IF is_webm(bytes_) THEN 1 ELSE 0)

\* C14: at most one sniffer accepts a buffer, so the attempt list has one or two
\* elements (at most one container attempt, then the fallback), and a call of
\* transcribe makes at least one and at most two recognize calls before it ends;
\* while it has not ended, the next recognize call can be made.
C14_OneOrTwoAttempts ==
    /\ \A b \in AudioBuffers : Sniffed(b) <= 1
    /\ stt_pc # "idle" =>
        /\ Len(attempts) = Sniffed(audio_bytes) + 1
        /\ Len(attempts) \in {1, 2}
        /\ Len(stt_calls) <= 2
    /\ stt_pc = "loop" => (stt_idx <= Len(attempts) /\ ENABLED RecognizeStep)
    /\ stt_pc = "done" => Len(stt_calls) \in {1, 2}

C14_Witness ==
    /\ stt_pc = "done"
    /\ is_webm(audio_bytes)
    /\ Len(attempts) = 2
    /\ Len(stt_calls) = 2
    /\ stt_out = None

\* None, or a non-empty string that neither starts nor ends with whitespace
TrimmedOrNone(o) ==
    \/ o = None
    \/ /\ o[1] # << >>
       /\ ~IsSpace(o[1][1])
       /\ ~IsSpace(o[1][Len(o[1])])

\* C13 (checked under SpecRecognize): the text of an attempt is the first
\* alternative of each result segment that has alternatives, in segment order,
\* joined with one space and then trimmed, None when that is empty; so what
\* _recognize and transcribe return is None or a non-empty string without
\* leading or trailing whitespace, never an empty or whitespace-only string.
C13_JoinedFirstAlternatives ==
    /\ (rec_pc # "idle" /\ ~rec_reply.exc) =>
        LET segs == SelectSeq(rec_reply.results, LAMBDA r : r # << >>)
            texts == [k \in 1..Len(segs) |-> Head(segs[k])]
            joined == Join(<<" ">>, texts)
        IN  /\ rec_pc = "done"
            /\ rec_out = IF Strip(joined) = << >> THEN None ELSE Some(Strip(joined))
            /\ \E a \in 0..Len(joined) : \E b \in 0..Len(joined) :
                    /\ a + b <= Len(joined)
                    /\ \A k \in 1..a : IsSpace(joined[k])
                    /\ \A k \in (Len(joined) - b + 1)..Len(joined) : IsSpace(joined[k])
                    /\ rec_out = IF a + b = Len(joined) THEN None
                                 ELSE Some(SubSeq(joined, a + 1, Len(joined) - b))
    /\ (rec_pc # "idle" /\ rec_reply.exc) => rec_out = None
    /\ TrimmedOrNone(rec_out)
    /\ TrimmedOrNone(stt_out)
    /\ \A i \in 1..Len(stt_calls) : TrimmedOrNone(stt_calls[i].out)

\* two segments, the first with two alternatives, the second's text padded
C13_Witness ==
    /\ rec_pc = "done"
    /\ rec_reply.results = <<<<<<"h", "i">>, <<" ", "y", " ">>>>, <<<<" ", "y", " ">>>>>>
    /\ rec_out = Some(<<"h", "i", " ", " ", "y">>)

\* two segments with an empty transcript each: the joined text is one space
C13_WitnessNone ==
    /\ rec_pc = "done"
    /\ ~rec_reply.exc
    /\ rec_reply.results = <<<<<< >>>>, <<<< >>>>>>
    /\ rec_out = None

-----------------------------------------------------------------------------
(* Properties of the page script (checked under Spec) *)

\* C5: when Generate Audio is pressed with a non-empty translated-text slot, the
\* synthesis adapter is called with that text (trimmed), whatever the input-text
\* slot holds; the input-text slot is what is synthesized only when the
\* translated-text slot is empty.
C5_SynthesisPrefersTranslated ==
    /\ (run.button = "tts" /\ translated_text # << >>) =>
            /\ run.tts_called
            /\ run.tts_text = Strip(translated_text)
            /\ run.tts_text # << >>
    /\ (run.button = "tts" /\ translated_text = << >>) =>
            /\ run.tts_text = Strip(input_text_cache)
            /\ run.tts_called <=> Strip(input_text_cache) # << >>

C5_Witness ==
    /\ run.button = "tts"
    /\ run.tts_called
    /\ translated_text = <<"t", "r">>
    /\ input_text_cache = <<"i", "n">>
    /\ run.tts_text = <<"t", "r">>

CredentialsMissing == gemini_api_key = << >> \/ ~speech_ok

\* a run that takes typed text and hands it to speech synthesis
TypedTextSynthesized == RunTypeText /\ run'.tts_called

\* C7 as claimed: with the translation key missing or the speech client not
\* created, the other providers' features (typed text with speech synthesis)
\* can still be run in the session.
C7_OtherFeaturesReachable == CredentialsMissing => ENABLED TypedTextSynthesized

\* C7 amended: with the translation key missing or the speech client not
\* created, every script run stops at the configuration check: no input mode,
\* extraction, translation or synthesis runs and the session cache stays empty;
\* with both present the input modes can run.
C7_MissingCredentialsStopEveryRun ==
    /\ CredentialsMissing =>
            /\ run \in {NoRun, [NoRun EXCEPT !.halted = TRUE]}
            /\ translated_text = << >> /\ input_text_cache = << >>
            /\ ~ENABLED RunTypeText /\ ~ENABLED RunUploadFile /\ ~ENABLED RunMicrophone
    /\ ~CredentialsMissing => (~run.halted /\ ENABLED TypedTextSynthesized)

C7_Witness ==
    /\ gemini_api_key # << >>
    /\ ~speech_ok
    /\ run.halted

\* C11: the cache slots change only on a successful operation.  A Translate run
\* whose adapter gives non-empty text stores that text in the translated-text
\* slot; a Translate run with empty or whitespace-only input does not call the
\* adapter; a Translate run whose adapter gives None or empty text, and every
\* run without Translate, leaves the translated-text slot as it was; the
\* input-text slot changes only to the non-empty input text of the run.
C11_SlotsChangeOnSuccessOnly ==
    [][/\ (run'.button = "translate" /\ Strip(OrStr(run'.input_text, Some(<< >>))[1]) = << >>)
            => (~run'.translate_called /\ translated_text' = translated_text)
       /\ (run'.button = "translate" /\ Strip(OrStr(run'.input_text, Some(<< >>))[1]) # << >>)
            => run'.translate_called
       /\ (run'.translate_called /\ TruthyStr(run'.translated))
            => translated_text' = run'.translated[1]
       /\ (run'.translate_called /\ ~TruthyStr(run'.translated))
            => translated_text' = translated_text
       /\ run'.button # "translate"
            => (~run'.translate_called /\ translated_text' = translated_text)
       /\ input_text_cache' # input_text_cache
            => (TruthyStr(run'.input_text) /\ input_text_cache' = run'.input_text[1])
       /\ ~TruthyStr(run'.input_text) => input_text_cache' = input_text_cache
      ]_vars

\* a Translate run whose adapter gave nothing, after an earlier success
C11_Witness ==
    /\ run.button = "translate"
    /\ run.translate_called
    /\ ~TruthyStr(run.translated)
    /\ translated_text = <<"u">>
    /\ run.input_text = Some(<<" ", "i", " ">>)
    /\ input_text_cache = <<" ", "i", " ">>

\* C15: neither cache slot ever goes from non-empty back to empty; once the
\* translated-text slot is filled it holds the text of the most recent successful
\* translation (it changes only in a run whose translation succeeds, to that
\* text), and every Generate Audio run synthesizes it, whatever input text the
\* run has and whatever translations failed since.
C15_SlotsNeverEmptied ==
    [][/\ translated_text # << >> => translated_text' # << >>
       /\ input_text_cache # << >> => input_text_cache' # << >>
       /\ translated_text' # translated_text
            => (/\ run'.translate_called
                /\ TruthyStr(run'.translated)
                /\ translated_text' = run'.translated[1])
       /\ (translated_text # << >> /\ run'.button = "tts")
            => (/\ translated_text' = translated_text
                /\ run'.tts_called
                /\ run'.tts_text = translated_text)
      ]_vars

\* Generate Audio on a run whose own input text differs from the translation kept
C15_Witness ==
    /\ run.button = "tts"
    /\ run.mode = "Use Microphone"
    /\ run.input_text = Some(<<"h", "i">>)
    /\ input_text_cache = <<"h", "i">>
    /\ translated_text = <<"u">>
    /\ run.tts_called
    /\ run.tts_text = <<"u">>

-----------------------------------------------------------------------------
(* Properties of extract_text_from_file (checked under SpecExtract) *)

SupportedExts == {EXT_TXT, EXT_PDF, EXT_CSV, EXT_XLSX}

\* C8: for a pdf whose reader opens, the pages kept are the texts of the pages
\* that did not throw (and gave text), in page order; the result is those texts
\* joined, or None when no page gave text; a throwing page never ends the
\* extraction.
C8_PdfSkipsFailedPages ==
    (ex_pc # "idle" /\ ex_ext = EXT_PDF /\ ~ex_file.content.fails) =>
        LET kept == SelectSeq(ex_file.content.pages,
                              LAMBDA p : ~p.throws /\ p.text # << >>)
        IN  /\ ex_pc = "done"
            /\ ex_pages = [k \in 1..Len(kept) |-> kept[k].text]
            /\ ex_out = IF kept = << >> THEN None ELSE Some(Join(<<"\n">>, ex_pages))

C8_Witness ==
    /\ ex_pc = "done"
    /\ ex_ext = EXT_PDF
    /\ Len(ex_file.content.pages) = 3
    /\ ex_file.content.pages[2].throws
    /\ ex_file.content.pages[1].text = <<"q", "\n">>
    /\ ex_file.content.pages[3].text = <<"p">>
    /\ ex_out = Some(<<"q", "\n", "\n", "p">>)

\* the extension the name spells: what follows its last ".", or the whole name
\* when it has none, in lower case
SpelledExt(name, ext) ==
    \E k \in 0..Len(name) :
        /\ k = 0 \/ name[k] = "."
        /\ \A j \in (k + 1)..Len(name) : name[j] # "."
        /\ Len(ext) = Len(name) - k
        /\ \A j \in 1..Len(ext) :
              /\ LowerChar(name[k + j]) = ext[j]
              /\ ~\E u \in 1..Len(UpperCase) : UpperCase[u] = ext[j]

\* C9: extract dispatches on the lower-cased text after the last "." of the
\* name; an extension other than txt, pdf, csv, xlsx gives None without the file
\* being read; a reader failure on a supported extension gives None; no
\* exception leaves extract.
C9_DispatchByExtension ==
    ex_pc # "idle" =>
        /\ ex_pc = "done"
        /\ SpelledExt(ex_file.name, ex_ext)
        /\ ex_ext \notin SupportedExts => (ex_out = None /\ ~ex_read)
        /\ ex_ext \in SupportedExts => ex_read
        /\ (ex_ext \in SupportedExts /\ ex_file.content.fails) => ex_out = None

C9_Witness ==
    /\ ex_pc = "done"
    /\ ex_file.name = <<"a", ".", "d", "o", "c", "x">>
    /\ ex_out = None
    /\ ~ex_read

C9_WitnessUpperCase ==
    /\ ex_pc = "done"
    /\ ex_file.name = <<"a", ".", "p", "d", "f", ".", "T", "X", "T">>
    /\ ex_ext = EXT_TXT
    /\ ex_out = Some(<<"A">>)

REPLACEMENT == "U+FFFD"

\* the UTF-8 bytes of a character of the modelled texts
EncodeChar(c) ==
    IF c = "A" THEN <<65>>
    ELSE IF c = "U+00E9" THEN <<195, 169>>
    ELSE <<239, 191, 189>>

RECURSIVE Utf8Encode(_)
Utf8Encode(text) ==
    IF text = << >> THEN << >> ELSE EncodeChar(Head(text)) \o Utf8Encode(Tail(text))

\* a is what is left of b after deleting some of its elements
RECURSIVE IsSubsequence(_, _)
IsSubsequence(a, b) ==
    IF a = << >> THEN TRUE
    ELSE IF b = << >> THEN FALSE
    ELSE IF Head(a) = Head(b) THEN IsSubsequence(Tail(a), Tail(b))
    ELSE IsSubsequence(a, Tail(b))

HasUndecodable(data) == Utf8Decode(data, "strict").raised

TxtRead == ex_pc # "idle" /\ ex_ext = EXT_TXT /\ ~ex_file.content.fails

\* C10 as claimed: a txt file with invalid UTF-8 gives a string in which the
\* undecodable bytes are replaced by the replacement marker.
C10_UndecodableReplaced ==
    (TxtRead /\ HasUndecodable(ex_file.content.data)) =>
        /\ ex_pc = "done"
        /\ ex_out # None
        /\ \E k \in 1..Len(ex_out[1]) : ex_out[1][k] = REPLACEMENT

\* C10 amended: a txt file with invalid UTF-8 gives a string without raising, in
\* which the undecodable bytes are left out: the string holds no replacement
\* marker and its UTF-8 encoding is the file's bytes with the undecodable ones
\* deleted (all of the bytes when the file is valid UTF-8).
C10_UndecodableDropped ==
    TxtRead =>
        LET data == ex_file.content.data IN
        /\ ex_pc = "done"
        /\ ex_out # None
        /\ \A k \in 1..Len(ex_out[1]) : ex_out[1][k] # REPLACEMENT
        /\ IsSubsequence(Utf8Encode(ex_out[1]), data)
        /\ IF HasUndecodable(data)
           THEN Len(Utf8Encode(ex_out[1])) < Len(data)
           ELSE Utf8Encode(ex_out[1]) = data

C10_Witness ==
    /\ ex_pc = "done"
    /\ ex_ext = EXT_TXT
    /\ ex_file.content.data = <<65, 255, 195>>
    /\ ex_out = Some(<<"A">>)

====
